---- MODULE Spec2Model ----
(***************************************************************************)
(* Content generation pipeline of Content_Creating_Genai:                  *)
(*   content_generator.py  (model client, parsers, generate / edit)        *)
(*   app.py                (Generate / Edit / Restore handlers, session)   *)
(*                                                                         *)
(* Text is modelled as a sequence of one-character strings, so that the    *)
(* string operations of the source (strip, split, startswith, lower,       *)
(* replace, slicing, json.loads) are computed character by character.      *)
(***************************************************************************)
EXTENDS Integers, Sequences, FiniteSets, TLC

\* ------------------------------------------------------------------ bounds

\* Longest content_types list passed to generate_content.
MaxTypes == 2

\* Total work of one behaviour: a run of the Generate handler or a call of
\* generate_content costs one unit plus one per variation slot, a run of
\* the Edit or of the Restore handler costs one unit.
MaxWork == 3

\* ------------------------------------------------------- Python str methods

SetMin(S) == CHOOSE x \in S : \A y \in S : x <= y

SetMax(S) == CHOOSE x \in S : \A y \in S : y <= x

\* Characters str.strip() / str.lstrip() / str.rstrip() remove by default.
IsSpace(c) == c \in {" ", "\n", "\t"}

\* s[n:]
Drop(s, n) == SubSeq(s, n + 1, Len(s))

\* s[:n]
Take(s, n) == SubSeq(s, 1, IF n < Len(s) THEN n ELSE Len(s))

\* str.strip()
Strip(s) ==
    LET keep == {i \in 1..Len(s) : ~IsSpace(s[i])}
    IN  IF keep = {} THEN <<>> ELSE SubSeq(s, SetMin(keep), SetMax(keep))

\* str.lstrip(chars)
LStripChars(s, chars) ==
    LET keep == {i \in 1..Len(s) : s[i] \notin chars}
    IN  IF keep = {} THEN <<>> ELSE SubSeq(s, SetMin(keep), Len(s))

UpperCase == <<"A","B","C","D","E","F","G","H","I","J","K","L","M",
               "N","O","P","Q","R","S","T","U","V","W","X","Y","Z">>

LowerCase == <<"a","b","c","d","e","f","g","h","i","j","k","l","m",
               "n","o","p","q","r","s","t","u","v","w","x","y","z">>

LowerChar(c) ==
    IF \E i \in 1..26 : UpperCase[i] = c
    THEN LowerCase[CHOOSE i \in 1..26 : UpperCase[i] = c]
    ELSE c

\* str.lower()
Lower(s) == [i \in 1..Len(s) |-> LowerChar(s[i])]

\* str.startswith(p)
StartsWith(s, p) == Len(s) >= Len(p) /\ SubSeq(s, 1, Len(p)) = p

\* Positions at which sub occurs in s.
Occurrences(s, sub) ==
    {i \in 1..(Len(s) - Len(sub) + 1) : SubSeq(s, i, i + Len(sub) - 1) = sub}

\* sub in s
Contains(s, sub) == Occurrences(s, sub) # {}

\* str.split(sep): cut at every non-overlapping occurrence, left to right.
RECURSIVE Split(_, _)
Split(s, sep) ==
    LET occ == Occurrences(s, sep)
    IN  IF occ = {} THEN <<s>>
        ELSE LET i == SetMin(occ)
             IN  <<SubSeq(s, 1, i - 1)>> \o Split(Drop(s, i + Len(sep) - 1), sep)

\* str.replace(old, new): every non-overlapping occurrence, left to right.
RECURSIVE Replace(_, _, _)
Replace(s, old, new) ==
    LET occ == Occurrences(s, old)
    IN  IF occ = {} THEN s
        ELSE LET i == SetMin(occ)
             IN  SubSeq(s, 1, i - 1) \o new
                   \o Replace(Drop(s, i + Len(old) - 1), old, new)

\* str(n) for a non-negative integer.
Digits == <<"0","1","2","3","4","5","6","7","8","9">>

RECURSIVE IntToStr(_)
IntToStr(n) ==
    IF n < 10 THEN <<Digits[n + 1]>>
    ELSE IntToStr(n \div 10) \o <<Digits[(n % 10) + 1]>>

NL == <<"\n">>

\* ------------------------------------------------------------ Python values

\* A Python value is tagged with its type: a str holds its characters, a
\* dict a function from keys (texts) to values, a list a sequence of values.
Str(s) == [t |-> "str", v |-> s]

Dict(d) == [t |-> "dict", v |-> d]

List(l) == [t |-> "list", v |-> l]

IntVal(n) == [t |-> "int", v |-> n]

BoolVal(b) == [t |-> "bool", v |-> b]

NoneVal == [t |-> "none", v |-> 0]

\* isinstance(x, dict)
IsDict(x) == x.t = "dict"

\* Truthiness of a value, as any() and `if x` read it.
Truthy(x) ==
    CASE x.t = "str"  -> x.v # <<>>
      [] x.t = "dict" -> DOMAIN x.v # {}
      [] x.t = "list" -> x.v # <<>>
      [] x.t = "int"  -> x.v # 0
      [] x.t = "bool" -> x.v
      [] x.t = "none" -> FALSE

\* d[k] = val
Put(d, k, val) == [x \in (DOMAIN d) \cup {k} |-> IF x = k THEN val ELSE d[x]]

EmptyDict == [x \in {} |-> Str(<<>>)]

\* ------------------------------------------------------- labels and literals

k_headline == <<"h","e","a","d","l","i","n","e">>

k_subtext == <<"s","u","b","t","e","x","t">>

k_cta == <<"c","t","a">>

k_subject_line == <<"s","u","b","j","e","c","t","_","l","i","n","e">>

k_header == <<"h","e","a","d","e","r">>

k_product_blurb == <<"p","r","o","d","u","c","t","_","b","l","u","r","b">>

k_cta_button == <<"c","t","a","_","b","u","t","t","o","n">>

k_hook == <<"h","o","o","k">>

k_main_content == <<"m","a","i","n","_","c","o","n","t","e","n","t">>

k_duration == <<"d","u","r","a","t","i","o","n">>

k_edited_content == <<"e","d","i","t","e","d","_","c","o","n","t","e","n","t">>

\* The labels as line.lower().startswith(...) tests them.
lbl_headline == <<"h","e","a","d","l","i","n","e",":">>

lbl_subtext == <<"s","u","b","t","e","x","t",":">>

lbl_cta == <<"c","t","a",":">>

lbl_subject == <<"s","u","b","j","e","c","t",":">>

lbl_header == <<"h","e","a","d","e","r",":">>

lbl_product == <<"p","r","o","d","u","c","t",":">>

\* The labels as line.replace(..., '') removes them.
Lbl_Headline == <<"H","e","a","d","l","i","n","e",":">>

Lbl_Subtext == <<"S","u","b","t","e","x","t",":">>

Lbl_CTA == <<"C","T","A",":">>

Lbl_Subject == <<"S","u","b","j","e","c","t",":">>

Lbl_Header == <<"H","e","a","d","e","r",":">>

Lbl_Product == <<"P","r","o","d","u","c","t",":">>

txt_ellipsis == <<".",".",".">>

txt_default_subtext ==
    <<"C","o","m","p","e","l","l","i","n","g"," ","s","u","b","t","e","x","t"," ",
      "f","o","r"," ","y","o","u","r"," ","p","r","o","d","u","c","t">>

txt_learn_more == <<"L","e","a","r","n"," ","M","o","r","e">>

txt_duration == <<"3","0","-","6","0"," ","s","e","c","o","n","d","s">>

txt_not_supported ==
    <<"C","o","n","t","e","n","t"," ","t","y","p","e"," ","n","o","t"," ",
      "s","u","p","p","o","r","t","e","d">>

\* response[:100]
HeadlineCut == 100

\* len(cleaned) > 10
MinPromptLen == 10

\* prompts[:3]
MaxPrompts == 3

\* ------------------------------------------------------------------ parsers

\* One pass of the labelled-line loop of a generation parser: labels is a
\* sequence of <<lower-case label, label as replaced, field key>> in the
\* order of the if / elif chain; st = [d |-> the record, cur |-> the
\* current section (<<>> for None)].
LabelledLineStep(st, rawline, labels) ==
    LET line == Strip(rawline)
        hit  == {j \in 1..Len(labels) : StartsWith(Lower(line), labels[j][1])}
    IN  IF hit # {}
        THEN LET L == labels[SetMin(hit)]
             IN  [d   |-> Put(st.d, L[3], Str(Strip(Replace(line, L[2], <<>>)))),
                  cur |-> L[3]]
        ELSE IF st.cur # <<>> /\ line # <<>>
        THEN [d   |-> Put(st.d, st.cur, Str(st.d[st.cur].v \o <<" ">> \o line)),
              cur |-> st.cur]
        ELSE st

RECURSIVE LabelledLines(_, _, _, _)
LabelledLines(st, lines, i, labels) ==
    IF i > Len(lines) THEN st
    ELSE LabelledLines(LabelledLineStep(st, lines[i], labels), lines, i + 1, labels)

AdCopyLabels ==
    << <<lbl_headline, Lbl_Headline, k_headline>>,
       <<lbl_subtext,  Lbl_Subtext,  k_subtext>>,
       <<lbl_cta,      Lbl_CTA,      k_cta>> >>

EmailLabels ==
    << <<lbl_subject, Lbl_Subject, k_subject_line>>,
       <<lbl_header,  Lbl_Header,  k_header>>,
       <<lbl_product, Lbl_Product, k_product_blurb>>,
       <<lbl_cta,     Lbl_CTA,     k_cta_button>> >>

AdCopyEmpty == [k \in {k_headline, k_subtext, k_cta} |-> Str(<<>>)]

EmailEmpty ==
    [k \in {k_subject_line, k_header, k_product_blurb, k_cta_button} |-> Str(<<>>)]

\* any(ad_copy.values())
AnyValue(d) == \E k \in DOMAIN d : Truthy(d[k])

\* A variant of generate_ad_copy without the fallback after the loop.
generate_ad_copy_no_fallback(response) ==
    Dict(LabelledLines([d |-> AdCopyEmpty, cur |-> <<>>],
                       Split(response, NL), 1, AdCopyLabels).d)

\* generate_ad_copy, from the response of make_api_call on.
generate_ad_copy(response) ==
    LET labelled == LabelledLines([d |-> AdCopyEmpty, cur |-> <<>>],
                                  Split(response, NL), 1, AdCopyLabels).d
        parts    == Split(response, NL \o NL)
    IN  IF AnyValue(labelled) THEN Dict(labelled)
        ELSE IF Len(parts) >= 3
        THEN Dict([k \in {k_headline, k_subtext, k_cta} |->
                    IF k = k_headline THEN Str(Strip(parts[1]))
                    ELSE IF k = k_subtext THEN Str(Strip(parts[2]))
                    ELSE Str(Strip(parts[3]))])
        ELSE Dict([k \in {k_headline, k_subtext, k_cta} |->
                    IF k = k_headline THEN Str(Take(response, HeadlineCut) \o txt_ellipsis)
                    ELSE IF k = k_subtext THEN Str(txt_default_subtext)
                    ELSE Str(txt_learn_more)])

\* generate_email_blocks, from the response of make_api_call on.
generate_email_blocks(response) ==
    Dict(LabelledLines([d |-> EmailEmpty, cur |-> <<>>],
                       Split(response, NL), 1, EmailLabels).d)

\* generate_video_script, from the response of make_api_call on.
generate_video_script(response) ==
    LET sections == Split(response, NL \o NL)
        three    == Len(sections) >= 3
    IN  Dict([k \in {k_hook, k_main_content, k_cta, k_duration} |->
               IF k = k_hook THEN Str(IF three THEN Strip(sections[1]) ELSE <<>>)
               ELSE IF k = k_main_content
                    THEN Str(IF three THEN Strip(sections[2]) ELSE response)
               ELSE IF k = k_cta THEN Str(IF three THEN Strip(sections[3]) ELSE <<>>)
               ELSE Str(txt_duration)])

\* The characters line.lstrip('123456789.-...') removes: the source's
\* literal holds the digits 1-9, '.', '-', a space, and the three characters
\* U+00E2, U+20AC, U+00A2 (written here as their code points).
BulletChars ==
    {"1","2","3","4","5","6","7","8","9",".","-"," ","U+00E2","U+20AC","U+00A2"}

RECURSIVE ImagePromptLines(_, _)
ImagePromptLines(lines, i) ==
    IF i > Len(lines) THEN <<>>
    ELSE LET line    == Strip(lines[i])
             cleaned == Strip(LStripChars(line, BulletChars))
         IN  (IF line # <<>> /\ ~StartsWith(line, <<"#">>) /\ Len(cleaned) > MinPromptLen
              THEN <<Str(cleaned)>> ELSE <<>>)
             \o ImagePromptLines(lines, i + 1)

\* A variant of generate_image_prompts that returns every kept line.
generate_image_prompts_all(response) ==
    LET prompts == ImagePromptLines(Split(response, NL), 1)
    IN  IF prompts # <<>> THEN List(prompts)
        ELSE List(<<Str(response)>>)

\* generate_image_prompts, from the response of make_api_call on.
generate_image_prompts(response) ==
    LET prompts == ImagePromptLines(Split(response, NL), 1)
    IN  IF prompts # <<>> THEN List(Take(prompts, MaxPrompts))
        ELSE List(<<Str(response)>>)

\* One pass of the loop of an edit-path parser: no current section, no
\* continuation lines.
PlainLineStep(d, rawline, labels) ==
    LET line == Strip(rawline)
        hit  == {j \in 1..Len(labels) : StartsWith(Lower(line), labels[j][1])}
    IN  IF hit # {}
        THEN LET L == labels[SetMin(hit)]
             IN  Put(d, L[3], Str(Strip(Replace(line, L[2], <<>>))))
        ELSE d

RECURSIVE PlainLines(_, _, _, _)
PlainLines(d, lines, i, labels) ==
    IF i > Len(lines) THEN d
    ELSE PlainLines(PlainLineStep(d, lines[i], labels), lines, i + 1, labels)

parse_ad_copy_from_text(text) ==
    Dict(PlainLines(AdCopyEmpty, Split(text, NL), 1, AdCopyLabels))

parse_email_blocks_from_text(text) ==
    Dict(PlainLines(EmailEmpty, Split(text, NL), 1, EmailLabels))

\* --------------------------------------------------------------- json.loads

\* json.loads on the JSON texts the model's responses can hold: objects,
\* arrays, strings without escapes, integers, true / false / null.  A text
\* that is none of these raises (ok = FALSE).
JsonFail == [ok |-> FALSE, val |-> NoneVal, pos |-> 0]

JsonOk(val, pos) == [ok |-> TRUE, val |-> val, pos |-> pos]

IsJsonSpace(c) == c \in {" ", "\n", "\t", "\r"}

IsDigit(c) == c \in {"0","1","2","3","4","5","6","7","8","9"}

DigitValue(c) == CHOOSE n \in 0..9 : Digits[n + 1] = c

\* First position >= i that holds no whitespace (Len(s) + 1 when none).
SkipWs(s, i) ==
    LET rest == {j \in i..Len(s) : ~IsJsonSpace(s[j])}
    IN  IF rest = {} THEN Len(s) + 1 ELSE SetMin(rest)

CharAt(s, i) == IF i >= 1 /\ i <= Len(s) THEN s[i] ELSE ""

RECURSIVE DigitsValue(_, _, _)
DigitsValue(s, i, j) ==
    IF j < i THEN 0 ELSE 10 * DigitsValue(s, i, j - 1) + DigitValue(s[j])

\* A string literal opening at s[i] = '"'.
JsonString(s, i) ==
    LET close == {j \in (i + 1)..Len(s) : s[j] = "\""}
    IN  IF close = {} THEN JsonFail
        ELSE LET j    == SetMin(close)
                 body == SubSeq(s, i + 1, j - 1)
             IN  IF \E k \in 1..Len(body) : body[k] \in {"\\", "\n", "\t", "\r"}
                 THEN JsonFail
                 ELSE JsonOk(Str(body), j + 1)

\* An integer literal at s[i]: -?(0|[1-9][0-9]*), not continued as a float.
JsonNumber(s, i) ==
    LET neg   == CharAt(s, i) = "-"
        b     == IF neg THEN i + 1 ELSE i
        stop  == {j \in b..(Len(s) + 1) : ~IsDigit(CharAt(s, j))}
        e     == SetMin(stop) - 1
        last  == IF CharAt(s, b) = "0" THEN b ELSE e
    IN  IF e < b \/ CharAt(s, last + 1) \in {".", "e", "E"} THEN JsonFail
        ELSE JsonOk(IntVal((IF neg THEN -1 ELSE 1) * DigitsValue(s, b, last)), last + 1)

JsonLiteral(s, i) ==
    IF StartsWith(Drop(s, i - 1), <<"t","r","u","e">>) THEN JsonOk(BoolVal(TRUE), i + 4)
    ELSE IF StartsWith(Drop(s, i - 1), <<"f","a","l","s","e">>)
    THEN JsonOk(BoolVal(FALSE), i + 5)
    ELSE IF StartsWith(Drop(s, i - 1), <<"n","u","l","l">>) THEN JsonOk(NoneVal, i + 4)
    ELSE JsonFail

RECURSIVE JsonValue(_, _)
RECURSIVE JsonMembers(_, _, _)
RECURSIVE JsonElements(_, _, _)

\* The value starting at s[i] (i is past any whitespace).
JsonValue(s, i) ==
    LET c == CharAt(s, i)
    IN  IF c = "{"
        THEN LET j == SkipWs(s, i + 1)
             IN  IF CharAt(s, j) = "}" THEN JsonOk(Dict(EmptyDict), j + 1)
                 ELSE JsonMembers(s, j, EmptyDict)
        ELSE IF c = "["
        THEN LET j == SkipWs(s, i + 1)
             IN  IF CharAt(s, j) = "]" THEN JsonOk(List(<<>>), j + 1)
                 ELSE JsonElements(s, j, <<>>)
        ELSE IF c = "\"" THEN JsonString(s, i)
        ELSE IF c = "-" \/ IsDigit(c) THEN JsonNumber(s, i)
        ELSE JsonLiteral(s, i)

\* "key": value pairs from s[i] to the closing brace; a repeated key keeps
\* its last value.
JsonMembers(s, i, acc) ==
    IF CharAt(s, i) # "\"" THEN JsonFail
    ELSE LET key == JsonString(s, i)
         IN  IF ~key.ok THEN JsonFail
             ELSE LET colon == SkipWs(s, key.pos)
                  IN  IF CharAt(s, colon) # ":" THEN JsonFail
                      ELSE LET val == JsonValue(s, SkipWs(s, colon + 1))
                           IN  IF ~val.ok THEN JsonFail
                               ELSE LET nxt == SkipWs(s, val.pos)
                                        d   == Put(acc, key.val.v, val.val)
                                    IN  IF CharAt(s, nxt) = "}" THEN JsonOk(Dict(d), nxt + 1)
                                        ELSE IF CharAt(s, nxt) = ","
                                        THEN JsonMembers(s, SkipWs(s, nxt + 1), d)
                                        ELSE JsonFail

JsonElements(s, i, acc) ==
    LET val == JsonValue(s, i)
    IN  IF ~val.ok THEN JsonFail
        ELSE LET nxt == SkipWs(s, val.pos)
                 l   == Append(acc, val.val)
             IN  IF CharAt(s, nxt) = "]" THEN JsonOk(List(l), nxt + 1)
                 ELSE IF CharAt(s, nxt) = ","
                 THEN JsonElements(s, SkipWs(s, nxt + 1), l)
                 ELSE JsonFail

\* json.loads(text): ok = FALSE stands for the raised JSONDecodeError.
json_loads(text) ==
    LET i == SkipWs(text, 1)
        r == JsonValue(text, i)
    IN  IF i > Len(text) \/ ~r.ok THEN JsonFail
        ELSE IF SkipWs(text, r.pos) <= Len(text) THEN JsonFail
        ELSE r

\* edit_content, from the response of make_api_call on.
\* A variant of edit_content whose except branch wraps whatever the
\* content type is.
edit_content_wrap_all(original_content, content_type, response) ==
    IF IsDict(original_content)
    THEN LET parsed == json_loads(response)
         IN  IF parsed.ok THEN parsed.val
             ELSE Dict([k \in {k_edited_content} |-> Str(response)])
    ELSE Str(response)

edit_content(original_content, content_type, response) ==
    IF IsDict(original_content)
    THEN LET parsed == json_loads(response)
         IN  IF parsed.ok THEN parsed.val
             ELSE IF content_type = "Ad Copy" THEN parse_ad_copy_from_text(response)
             ELSE IF content_type = "Email Creative Blocks"
             THEN parse_email_blocks_from_text(response)
             ELSE Dict([k \in {k_edited_content} |-> Str(response)])
    ELSE Str(response)

\* ------------------------------------------------------------ model client

VARIABLES
    process,            \* "app": the Streamlit script; "library": another
                        \* program that imports content_generator
    env_key,            \* os.environ["GROQ_API_KEY"]: NoneVal when unset
    llm,                \* the global _llm: NoneVal or the client
    generated_content,  \* st.session_state.generated_content: an object id
    content_history,    \* st.session_state.content_history
    heap,               \* heap[id]: the result mapping object number id
    ui,                 \* what the last handler run displayed
    pc,                 \* "idle", or the handler blocked in llm.invoke
    req,                \* arguments of the running / last request
    results,            \* generate_content: results
    ti,                 \* generate_content: position in content_types
    vi,                 \* generate_content: variation
    pi,                 \* generate_social_captions: position in platforms
    captions,           \* generate_social_captions: captions
    target,             \* Edit handler: content_type and i of the variation
    attempt,            \* make_api_call: attempt
    waits,              \* make_api_call: the time.sleep() calls so far
    last_call,          \* how the latest make_api_call ended, until the next
                        \* call or request starts
    invocations,        \* llm.invoke calls made by the running / last request
    returned,           \* whether the last generate_content / edit_content
                        \* returned or raised
    work_done,          \* work spent so far (model bound)
    p_in,               \* parser check: the input drawn
    p_out               \* parser check: the result computed

sessionVars == <<generated_content, content_history, heap, ui>>

frameVars == <<pc, req, results, ti, vi, pi, captions, target>>

callVars == <<attempt, waits, last_call, invocations>>

parserVars == <<p_in, p_out>>

vars == <<process, env_key, llm, sessionVars, frameVars, callVars, returned, work_done,
          parserVars>>

\* make_api_call(prompt, max_retries = 3)
max_retries == 3

txt_default_key == <<"-","-","-">>

txt_key_required ==
    <<"G","R","O","Q","_","A","P","I","_","K","E","Y"," ","i","s"," ",
      "r","e","q","u","i","r","e","d">>

txt_api_failed_1 ==
    <<"G","r","o","q"," ","A","P","I"," ","c","a","l","l"," ","f","a","i","l","e","d"," ",
      "a","f","t","e","r"," ">>

txt_api_failed_2 == <<" ","a","t","t","e","m","p","t","s",":"," ">>

txt_error_generating ==
    <<"E","r","r","o","r"," ","g","e","n","e","r","a","t","i","n","g"," ",
      "v","a","r","i","a","t","i","o","n"," ">>

\* a or b
Or(a, b) == IF Truthy(a) THEN a ELSE b

\* os.environ.get("GROQ_API_KEY", default)
environ_get(env, default) == IF env = NoneVal THEN default ELSE env

\* load_llm: raised with the ValueError's text, or the ChatGroq client.
load_llm(groq_api_key, env) ==
    LET api_key == Or(groq_api_key, environ_get(env, Str(txt_default_key)))
    IN  IF ~Truthy(api_key)
        THEN [raised |-> TRUE, error |-> txt_key_required, llm |-> NoneVal]
        ELSE [raised |-> FALSE, error |-> <<>>,
              llm |-> [t |-> "llm", v |-> api_key.v]]

\* get_llm: the global is set only when load_llm returns.
get_llm(l, env) ==
    IF l = NoneVal THEN load_llm(NoneVal, env)
    ELSE [raised |-> FALSE, error |-> <<>>, llm |-> l]

\* The credentials the hosted model accepts; any other key makes every
\* llm.invoke raise.
ValidKeys == {<<"g","s","k">>}

\* What llm.invoke can raise.
FailureDetails == {<<"t","i","m","e","o","u","t">>, <<"r","a","t","e">>}

\* time.sleep(2 ** attempt)
Backoff(a) == 2 ^ a

\* The exception make_api_call raises after the last attempt.
api_error(e) == txt_api_failed_1 \o IntToStr(max_retries) \o txt_api_failed_2 \o e

\* A variant of the except branch that sleeps before it raises as well.
make_api_call_except_sleep_first(a, w, e) ==
    IF a = max_retries - 1
    THEN [raise |-> TRUE, error |-> api_error(e), attempt |-> a,
          waits |-> Append(w, Backoff(a))]
    ELSE [raise |-> FALSE, error |-> <<>>, attempt |-> a + 1,
          waits |-> Append(w, Backoff(a))]

\* The except branch of make_api_call for the exception e of llm.invoke:
\* raise on the last attempt, otherwise sleep and go round the loop.
\* A variant of the except branch that gives up one attempt too late.
make_api_call_except_one_more(a, w, e) ==
    IF a = max_retries
    THEN [raise |-> TRUE, error |-> api_error(e), attempt |-> a, waits |-> w]
    ELSE [raise |-> FALSE, error |-> <<>>, attempt |-> a + 1,
          waits |-> Append(w, Backoff(a))]

make_api_call_except(a, w, e) ==
    IF a = max_retries - 1
    THEN [raise |-> TRUE, error |-> api_error(e), attempt |-> a, waits |-> w]
    ELSE [raise |-> FALSE, error |-> <<>>, attempt |-> a + 1,
          waits |-> Append(w, Backoff(a))]

\* A variant of the try branch that returns response.content as it is.
make_api_call_return_raw(content) == content

\* The try branch of make_api_call: response.content.strip()
make_api_call_return(content) == Strip(content)

NoCall ==
    [outcome |-> "none", attempts |-> 0, waits |-> <<>>, cause |-> <<>>,
     raw |-> <<>>, value |-> <<>>, error |-> <<>>]

\* ------------------------------------------------------- generate_content

AdCopy == "Ad Copy"

SocialCaptions == "Social Media Captions"

EmailBlocks == "Email Creative Blocks"

VideoScripts == "Video Scripts"

ImagePrompts == "Image Prompts"

\* The content types the if / elif chain of generate_content dispatches on.
SupportedTypes == {AdCopy, SocialCaptions, EmailBlocks, VideoScripts, ImagePrompts}

p_Instagram == <<"I","n","s","t","a","g","r","a","m">>

p_TikTok == <<"T","i","k","T","o","k">>

\* A variant of the default that falls back to two platforms.
PlatformsOrDefault_two(platforms) ==
    IF platforms # <<>> THEN platforms ELSE <<p_Instagram, p_TikTok>>

\* platforms or ["Instagram"]
PlatformsOrDefault(platforms) ==
    IF platforms # <<>> THEN platforms ELSE <<p_Instagram>>

\* f"Error generating variation {variation + 1}: {str(e)}"
error_marker(variation, e) ==
    txt_error_generating \o IntToStr(variation + 1) \o <<":", " ">> \o e

\* results[content_type].append(content)
AppendTo(res, ct, content) == [res EXCEPT ![ct] = Append(@, content)]

\* A variant of the except branch that swallows the error and appends
\* nothing.
on_variation_error_pass(res, ct, variation, e) == res

\* A variant of the except branch that restarts the list with the marker.
on_variation_error_restart(res, ct, variation, e) ==
    [res EXCEPT ![ct] = <<Str(error_marker(variation, e))>>]

\* The except branch of the variation loop.
\* A variant of the except branch that keeps the captions gathered so far.
on_variation_error_partial(res, ct, variation, e) ==
    AppendTo(res, ct, IF captions # EmptyDict THEN Dict(captions)
                      ELSE Str(error_marker(variation, e)))

on_variation_error(res, ct, variation, e) ==
    AppendTo(res, ct, Str(error_marker(variation, e)))

\* The parser each content type's generator runs on the response.
ParseFor(ct, response) ==
    CASE ct = AdCopy       -> generate_ad_copy(response)
      [] ct = EmailBlocks  -> generate_email_blocks(response)
      [] ct = VideoScripts -> generate_video_script(response)
      [] ct = ImagePrompts -> generate_image_prompts(response)

EmptyResults == [ct \in {} |-> <<>>]

\* results = {} and the entry into the first content type.
StartFrame(rq) ==
    [results |-> IF rq.content_types # <<>>
                 THEN Put(EmptyResults, rq.content_types[1], <<>>)
                 ELSE EmptyResults,
     ti |-> 1, vi |-> 0]

\* generate_content from the head of the variation loop at (g.ti, g.vi) up
\* to the next llm.invoke (blocked) or to `return results`: unsupported
\* types and a get_llm that raises fill their slot without a model call.
RECURSIVE GenLoop(_, _, _, _)
GenLoop(rq, g, l, env) ==
    IF g.ti > Len(rq.content_types)
    THEN [blocked |-> FALSE, results |-> g.results, ti |-> g.ti, vi |-> g.vi, llm |-> l]
    ELSE LET ct == rq.content_types[g.ti]
         IN  IF g.vi >= rq.num_variations
             THEN LET nti == g.ti + 1
                  IN  GenLoop(rq,
                              [results |-> IF nti <= Len(rq.content_types)
                                           THEN Put(g.results, rq.content_types[nti], <<>>)
                                           ELSE g.results,
                               ti |-> nti, vi |-> 0],
                              l, env)
             ELSE IF ct \notin SupportedTypes
             THEN GenLoop(rq,
                          [results |-> AppendTo(g.results, ct, Str(txt_not_supported)),
                           ti |-> g.ti, vi |-> g.vi + 1],
                          l, env)
             ELSE LET got == get_llm(l, env)
                  IN  IF got.raised
                      THEN GenLoop(rq,
                                   [results |-> on_variation_error(g.results, ct, g.vi,
                                                                   got.error),
                                    ti |-> g.ti, vi |-> g.vi + 1],
                                   l, env)
                      ELSE [blocked |-> TRUE, results |-> g.results, ti |-> g.ti,
                            vi |-> g.vi, llm |-> got.llm]

\* Variation slots of the content types from position i on.
RECURSIVE Slots(_, _)
Slots(rq, i) ==
    IF i > Len(rq.content_types) THEN 0
    ELSE rq.num_variations + Slots(rq, i + 1)

\* Work units of a generation request.
Work(rq) == 1 + Slots(rq, 1)

\* Lines 119-127 of app.py: the result is displayed and appended to history.
StoreGenerated(rq, res) ==
    /\ heap' = Append(heap, res)
    /\ generated_content' = Len(heap) + 1
    /\ content_history' =
         Append(content_history,
                [prompt |-> rq.prompt, content_types |-> rq.content_types,
                 platforms |-> rq.platforms, content |-> Len(heap) + 1])
    /\ ui' = "success"

\* Run generate_content on from frame g: block in the next llm.invoke, or
\* return the mapping to the caller.
Proceed(rq, g) ==
    LET r == GenLoop(rq, g, llm, env_key)
    IN  /\ llm' = r.llm
        /\ results' = r.results
        /\ ti' = r.ti
        /\ vi' = r.vi
        /\ pi' = 1
        /\ captions' = EmptyDict
        /\ attempt' = 0
        /\ waits' = <<>>
        /\ IF r.blocked
           THEN /\ pc' = "generate"
                /\ ui' = IF process = "app" THEN "spinner" ELSE ui
                /\ UNCHANGED <<generated_content, content_history, heap, returned>>
           ELSE /\ pc' = "idle"
                /\ returned' = [op |-> "generate_content", raised |-> FALSE]
                /\ IF process = "app"
                   THEN StoreGenerated(rq, r.results)
                   ELSE UNCHANGED sessionVars

\* ------------------------------------------------------------------ inputs

SeqsUpTo(S, n) == UNION {[1..k -> S] : k \in 0..n}

NoRepeat(l) == \A i, j \in 1..Len(l) : l[i] = l[j] => i = j

\* st.text_area / st.text_input values: empty or not.
Prompts == {<<>>, <<"p">>}

\* A content type the if / elif chain does not know.
OtherType == "Podcast Script"

\* What the content-type multiselect of the app can return.
AppTypeLists == {l \in SeqsUpTo(SupportedTypes, MaxTypes) : NoRepeat(l)}

\* What any caller of generate_content can pass.
AnyTypeLists == SeqsUpTo({AdCopy, SocialCaptions, OtherType}, MaxTypes)

\* What the platform multiselect can return (two of its five options).
PlatformLists == {<<>>, <<p_TikTok>>, <<p_Instagram, p_TikTok>>}

\* st.slider("Number of variations per content type", 1, 5, 3)
SliderMin == 1

SliderMax == 5

\* History entries the Restore buttons are shown for.
HistoryShown == 10

q == "\""

\* Raw responses of the hosted model.
mt_labelled ==
    <<" ">> \o Lbl_Headline \o <<" ","H","i","\n">> \o Lbl_CTA \o <<" ","G","o","\n">>

mt_plain == <<"J","u","s","t"," ","t","r","y"," ","i","t">>

mt_json == <<"{", q,"a",q, ":", " ", q,"b",q, "}">>

ModelTexts == {mt_labelled, mt_json}

\* --------------------------------------------------------------- handlers

NoRequest ==
    [op |-> "none", prompt |-> <<>>, content_types |-> <<>>,
     platforms |-> <<>>, num_variations |-> 0]

NoReturn == [op |-> "none", raised |-> FALSE]

Init ==
    /\ process \in {"app", "library"}
    /\ env_key \in {NoneVal, Str(<<>>), Str(<<"g","s","k">>)}
    /\ llm = NoneVal
    /\ generated_content = 0
    /\ content_history = <<>>
    /\ heap = <<>>
    /\ ui = "none"
    /\ pc = "idle"
    /\ req = NoRequest
    /\ results = EmptyResults
    /\ ti = 1
    /\ vi = 0
    /\ pi = 1
    /\ captions = EmptyDict
    /\ target = [content_type |-> "", index |-> 0]
    /\ attempt = 0
    /\ waits = <<>>
    /\ last_call = NoCall
    /\ invocations = 0
    /\ returned = NoReturn
    /\ work_done = 0
    /\ p_in = NoneVal
    /\ p_out = NoneVal

\* A variant of the handler's condition that tests the prompt only.
app_validate_prompt_only(user_prompt, content_types) == user_prompt # <<>>

\* if user_prompt and content_types
app_validate(user_prompt, content_types) ==
    user_prompt # <<>> /\ content_types # <<>>

\* The "Generate Content" button (app.py 108-131).
GenerateButton(user_prompt, content_types, platforms, num_variations) ==
    LET rq == [op |-> "generate", prompt |-> user_prompt,
               content_types |-> content_types, platforms |-> platforms,
               num_variations |-> num_variations]
        ok == app_validate(user_prompt, content_types)
    IN  /\ process = "app"
        /\ pc = "idle"
        /\ platforms # <<>> => \E i \in 1..Len(content_types) :
                                  content_types[i] = SocialCaptions
        /\ work_done + Work(rq) <= MaxWork
        /\ work_done' = work_done + Work(rq)
        /\ UNCHANGED <<process, env_key, target, parserVars>>
        /\ IF ok
           THEN /\ req' = rq
                /\ invocations' = 0
                /\ last_call' = NoCall
                /\ Proceed(rq, StartFrame(rq))
           ELSE /\ ui' = "validation_error"
                /\ UNCHANGED <<llm, generated_content, content_history, heap, pc,
                               req, results, ti, vi, pi, captions, attempt, waits,
                               last_call, invocations, returned>>

\* generate_content called by another program, with any arguments; such a
\* process makes one call.
GenerateContentCall(prompt, content_types, platforms, num_variations) ==
    LET rq == [op |-> "generate", prompt |-> prompt,
               content_types |-> content_types, platforms |-> platforms,
               num_variations |-> num_variations]
    IN  /\ process = "library"
        /\ pc = "idle"
        /\ req.op = "none"
        /\ work_done + Work(rq) <= MaxWork
        /\ work_done' = work_done + Work(rq)
        /\ platforms # <<>> => \E i \in 1..Len(content_types) :
                                  content_types[i] = SocialCaptions
        /\ req' = rq
        /\ invocations' = 0
        /\ last_call' = NoCall
        /\ UNCHANGED <<process, env_key, target, parserVars>>
        /\ Proceed(rq, StartFrame(rq))

\* A variant of the except branch that stores the error text in the slot.
edit_button_except_store(h, gc, tg, e) ==
    [h EXCEPT ![gc][tg.content_type][tg.index] = Str(e)]

\* The except branch of the Edit handler: st.error, nothing is written.
edit_button_except(h, gc, tg, e) == h

\* The "Edit" button of variation i of content_type (app.py 155-170).
EditButton(content_type, i, edit_instruction) ==
    /\ process = "app"
    /\ pc = "idle"
    /\ generated_content # 0
    /\ content_type \in DOMAIN heap[generated_content]
    /\ i \in 1..Len(heap[generated_content][content_type])
    /\ work_done < MaxWork
    /\ work_done' = work_done + 1
    /\ UNCHANGED <<process, env_key, generated_content, content_history, results, ti,
                   vi, pi, captions, parserVars>>
    /\ IF edit_instruction = <<>>
       THEN /\ ui' = "none"
            /\ UNCHANGED <<llm, heap, pc, req, target, attempt, waits, last_call, invocations, returned>>
       ELSE LET got == get_llm(llm, env_key)
                tg  == [content_type |-> content_type, index |-> i]
            IN  /\ req' = [NoRequest EXCEPT !.op = "edit"]
                /\ last_call' = NoCall
                /\ target' = tg
                /\ invocations' = 0
                /\ attempt' = 0
                /\ waits' = <<>>
                /\ llm' = got.llm
                /\ IF got.raised
                   THEN /\ pc' = "idle"
                        /\ ui' = "edit_error"
                        /\ heap' = edit_button_except(heap, generated_content, tg,
                                                      got.error)
                        /\ returned' = [op |-> "edit_content", raised |-> TRUE]
                   ELSE /\ pc' = "edit"
                        /\ ui' = "spinner"
                        /\ UNCHANGED <<heap, returned>>

\* A "Restore" button of the history list (app.py 207-214).
RestoreButton(k) ==
    /\ process = "app"
    /\ pc = "idle"
    /\ k \in 1..Len(content_history)
    /\ k > Len(content_history) - HistoryShown
    /\ generated_content' = content_history[k].content
    /\ work_done < MaxWork
    /\ work_done' = work_done + 1
    /\ ui' = "none"
    /\ UNCHANGED <<process, env_key, llm, content_history, heap, frameVars, callVars,
                   returned, parserVars>>

\* llm.invoke returns a response whose content is text.
InvokeReturn(text) ==
    LET response == make_api_call_return(text)
    IN  /\ pc \in {"generate", "edit"}
        /\ llm.v \in ValidKeys
        /\ invocations' = invocations + 1
        /\ UNCHANGED <<process, env_key, req, target, work_done, parserVars>>
        /\ IF pc = "generate"
           THEN LET ct    == req.content_types[ti]
                    plats == PlatformsOrDefault(req.platforms)
                IN  IF ct = SocialCaptions /\ pi < Len(plats)
                    THEN /\ captions' = Put(captions, plats[pi], Str(response))
                         /\ pi' = pi + 1
                         /\ attempt' = 0
                         /\ waits' = <<>>
                         /\ UNCHANGED <<llm, sessionVars, pc, results, ti, vi, returned>>
                    ELSE LET content ==
                                 IF ct = SocialCaptions
                                 THEN Dict(Put(captions, plats[pi], Str(response)))
                                 ELSE ParseFor(ct, response)
                         IN  Proceed(req, [results |-> AppendTo(results, ct, content),
                                           ti |-> ti, vi |-> vi + 1])
           ELSE LET original == heap[generated_content][target.content_type][target.index]
                    edited   == edit_content(original, target.content_type, response)
                IN  /\ heap' = [heap EXCEPT
                                  ![generated_content][target.content_type][target.index]
                                      = edited]
                    /\ ui' = "edited"
                    /\ pc' = "idle"
                    /\ returned' = [op |-> "edit_content", raised |-> FALSE]
                    /\ attempt' = 0
                    /\ waits' = <<>>
                    /\ UNCHANGED <<llm, generated_content, content_history, results,
                                   ti, vi, pi, captions>>
        /\ last_call' = [outcome |-> "returned", attempts |-> attempt + 1,
                         waits |-> waits, cause |-> <<>>, raw |-> text,
                         value |-> response, error |-> <<>>]

\* llm.invoke raises e.
InvokeRaise(e) ==
    LET x == make_api_call_except(attempt, waits, e)
    IN  /\ pc \in {"generate", "edit"}
        /\ invocations' = invocations + 1
        /\ UNCHANGED <<process, env_key, req, target, work_done, parserVars>>
        /\ IF ~x.raise
           THEN /\ attempt' = x.attempt
                /\ waits' = x.waits
                /\ UNCHANGED <<llm, sessionVars, pc, results, ti, vi, pi, captions,
                               last_call, returned>>
           ELSE /\ IF pc = "generate"
                   THEN Proceed(req, [results |-> on_variation_error(
                                                     results, req.content_types[ti],
                                                     vi, x.error),
                                      ti |-> ti, vi |-> vi + 1])
                   ELSE /\ heap' = edit_button_except(heap, generated_content, target,
                                                      x.error)
                        /\ ui' = "edit_error"
                        /\ pc' = "idle"
                        /\ returned' = [op |-> "edit_content", raised |-> TRUE]
                        /\ attempt' = 0
                        /\ waits' = <<>>
                        /\ UNCHANGED <<llm, generated_content, content_history,
                                       results, ti, vi, pi, captions>>
                /\ last_call' = [outcome |-> "raised", attempts |-> attempt + 1,
                                 waits |-> x.waits, cause |-> e, raw |-> <<>>,
                                 value |-> <<>>, error |-> x.error]

\* The script (or the calling program) is between two handler runs.
Idle(p) == process = p /\ pc = "idle" /\ work_done < MaxWork

Next ==
    \/ /\ Idle("app")
       /\ \E up \in Prompts, cts \in AppTypeLists, pl \in PlatformLists,
             nv \in SliderMin..SliderMax : GenerateButton(up, cts, pl, nv)
    \/ /\ Idle("library")
       /\ \E pr \in Prompts, cts \in AnyTypeLists, pl \in PlatformLists,
             nv \in 0..SliderMax : GenerateContentCall(pr, cts, pl, nv)
    \/ /\ Idle("app")
       /\ \E ct \in SupportedTypes, i \in 1..SliderMax, ins \in Prompts :
             EditButton(ct, i, ins)
    \/ /\ Idle("app")
       /\ \E k \in 1..MaxWork : RestoreButton(k)
    \/ \E text \in ModelTexts : InvokeReturn(text)
    \/ \E e \in FailureDetails : InvokeRaise(e)

Spec == Init /\ [][Next]_vars

\* A pending llm.invoke comes back, with a response or an exception: the
\* steps of InvokeReturn and InvokeRaise, which are the steps of Next
\* taken while a handler is blocked, each counting one more invocation.
InvokeCompletes == pc # "idle" /\ invocations' = invocations + 1

\* The same program, with every blocking llm.invoke coming back at last.
FairSpec == Init /\ [][Next]_vars /\ WF_invocations(InvokeCompletes)

\* ------------------------------------------------------------------ claims

EndsWith(s, suffix) ==
    Len(s) >= Len(suffix) /\ Drop(s, Len(s) - Len(suffix)) = suffix

IsErrorMarker(x) == x.t = "str" /\ StartsWith(x.v, txt_error_generating)

\* generate_content has returned its mapping and no later request has
\* started.
GenerateReturned ==
    req.op = "generate" /\ pc = "idle" /\ returned.op = "generate_content"

RequestedTypes == {req.content_types[i] : i \in 1..Len(req.content_types)}

\* C1: the mapping generate_content returns has exactly the requested
\* content types as its keys, and the list under each key has exactly
\* num_variations entries, whatever the model calls did.
C1_KeysAndLengths ==
    GenerateReturned =>
        /\ ~returned.raised
        /\ DOMAIN results = RequestedTypes
        /\ \A ct \in DOMAIN results : Len(results[ct]) = req.num_variations

\* Two content types were requested; one variation failed and one was
\* generated.
C1_Witness ==
    /\ GenerateReturned
    /\ Cardinality(RequestedTypes) = 2
    /\ req.num_variations = 1
    /\ \E ct \in DOMAIN results :
          Len(results[ct]) = 1 /\ IsErrorMarker(results[ct][1])
    /\ \E ct \in DOMAIN results :
          Len(results[ct]) = 1 /\ IsDict(results[ct][1])

\* The step in which make_api_call raises inside generate_content.
GenerateCallRaises ==
    /\ pc = "generate"
    /\ attempt = max_retries - 1
    /\ invocations' = invocations + 1
    /\ last_call'.outcome = "raised"

\* The slot after (ti, vi) in request order exists and generate_content is
\* in it, or there is none and the mapping has been returned.
GenerationGoesOn ==
    IF pc' = "generate"
    THEN ti' > ti \/ (ti' = ti /\ vi' = vi + 1)
    ELSE /\ returned' = [op |-> "generate_content", raised |-> FALSE]
         /\ \A k \in DOMAIN results' : Len(results'[k]) = req.num_variations

\* C2: when the model call of a variation fails after its retries, the
\* variation's slot gets the error marker, which names the variation (its
\* position counted from 1) and carries the failure detail; the key stays,
\* every entry stored before stays at its index, and generation goes on
\* with the next variation or content type.
C2_FailureIsolated ==
    [][GenerateCallRaises /\ NoRepeat(req.content_types) =>
         LET ct == req.content_types[ti]
         IN  /\ DOMAIN results \subseteq DOMAIN results'
             /\ Len(results'[ct]) = vi + 1
             /\ results'[ct][vi + 1] =
                    Str(txt_error_generating \o IntToStr(vi + 1) \o <<":", " ">>
                        \o last_call'.error)
             /\ EndsWith(last_call'.error, last_call'.cause)
             /\ \A k \in DOMAIN results : \A i \in 1..Len(results[k]) :
                    results'[k][i] = results[k][i]
             /\ GenerationGoesOn]_vars

\* A returned list holds the error marker of variation 1 followed by the
\* record of variation 2, generated after the failure.
C2_Witness ==
    /\ GenerateReturned
    /\ \E ct \in DOMAIN results :
          /\ Len(results[ct]) = 2
          /\ IsErrorMarker(results[ct][1])
          /\ IsDict(results[ct][2])

\* C3: a make_api_call whose llm.invoke failed every time made exactly
\* max_retries = 3 attempts, slept 1 and then 2 between them and not after
\* the third, and raised an exception that carries the attempt count and
\* the last failure's detail.
C3_RetriesThenRaises ==
    last_call.outcome = "raised" =>
        /\ last_call.attempts = 3
        /\ last_call.waits = <<1, 2>>
        /\ last_call.error =
              txt_api_failed_1 \o <<"3">> \o txt_api_failed_2 \o last_call.cause

\* A call has raised after its third failure.
C3_Witness ==
    /\ last_call.outcome = "raised"
    /\ last_call.cause \in FailureDetails
    /\ invocations >= 3

\* C4: a make_api_call that returned did so on one of its first three
\* attempts, after the backoff waits of the failed attempts before it only;
\* it returned the trimmed content of that attempt; and an edit, which
\* makes one call, made no attempt after the successful one.
C4_ReturnsFirstSuccess ==
    last_call.outcome = "returned" =>
        /\ last_call.attempts \in 1..3
        /\ last_call.waits = SubSeq(<<1, 2>>, 1, last_call.attempts - 1)
        /\ last_call.value = Strip(last_call.raw)
        /\ last_call.value # <<>> =>
              /\ ~IsSpace(last_call.value[1])
              /\ ~IsSpace(last_call.value[Len(last_call.value)])
        /\ req.op = "edit" /\ pc = "idle" => invocations = last_call.attempts

\* A call returned on its third attempt, and trimming changed the text.
C4_Witness ==
    /\ last_call.outcome = "returned"
    /\ last_call.attempts = 3
    /\ last_call.value # last_call.raw

\* C5 as stated: a generate_content call with an empty prompt or an empty
\* list of content types has failed with a validation error and has made
\* no model call.
C5_GenerateContentValidates ==
    req.op = "generate" /\ (req.prompt = <<>> \/ req.content_types = <<>>) =>
        /\ pc = "idle"
        /\ returned = [op |-> "generate_content", raised |-> TRUE]
        /\ invocations = 0

\* C5 amended: the Generate handler of the app calls generate_content only
\* with a non-empty prompt and at least one content type, and a run it
\* rejects shows the error, makes no model call and changes no content;
\* generate_content itself validates nothing: called with no content type
\* it returns the empty mapping without a model call.
C5_HandlerValidates ==
    [][/\ process' = "app" /\ req'.op = "generate" =>
             req'.prompt # <<>> /\ req'.content_types # <<>>
       /\ ui' = "validation_error" /\ work_done' # work_done =>
             /\ pc' = "idle"
             /\ invocations' = invocations
             /\ <<llm, generated_content, content_history, heap, req, returned>>'
                  = <<llm, generated_content, content_history, heap, req, returned>>
       /\ process' = "library" /\ GenerateReturned' /\ req'.content_types = <<>> =>
             results' = EmptyResults /\ invocations' = 0 /\ ~returned'.raised]_vars

\* The handler has rejected a request.
C5_Witness == process = "app" /\ ui = "validation_error" /\ pc = "idle"

\* The step in which an edit fails: get_llm or make_api_call raises out of
\* edit_content into the handler's except branch.
EditRaises ==
    /\ returned'.op = "edit_content" /\ returned'.raised
    /\ ui' = "edit_error"
    /\ pc = "edit" \/ work_done' # work_done

\* C6: an edit whose model call fails raises out of edit_content, and the
\* handler writes nothing: every variation of every content type of
\* generated_content, and of every history entry, is what it was.
C6_FailedEditKeepsContent ==
    [][EditRaises =>
         /\ pc' = "idle"
         /\ generated_content' = generated_content
         /\ heap' = heap
         /\ content_history' = content_history]_vars

\* An edit failed after the third attempt of its model call.
C6_Witness ==
    /\ req.op = "edit" /\ pc = "idle"
    /\ returned = [op |-> "edit_content", raised |-> TRUE]
    /\ ui = "edit_error"
    /\ last_call.outcome = "raised"
    /\ invocations = 3

\* The step in which edit_content returns and the handler stores the
\* edited variation.
EditReturns ==
    /\ pc = "edit" /\ pc' = "idle"
    /\ returned' = [op |-> "edit_content", raised |-> FALSE]

\* The variation the running edit was asked to change.
EditOriginal == heap[generated_content][target.content_type][target.index]

\* What the handler has stored in its place.
EditStored == heap'[generated_content][target.content_type][target.index]

\* {"edited_content": text}
Wrapper(text) == Dict([k \in {k_edited_content} |-> Str(text)])

\* C7 as stated: the edit of a record yields a record with the original's
\* fields or the {edited_content: text} wrapper, whatever the model
\* returned.
C7_EditKeepsShape ==
    [][EditReturns /\ IsDict(EditOriginal) =>
         /\ IsDict(EditStored)
         /\ \/ DOMAIN EditStored.v = DOMAIN EditOriginal.v
            \/ EditStored = Wrapper(last_call'.value)]_vars

\* C8: when the response of an edit of a record is not JSON, an Ad Copy
\* (Email Creative Blocks) original is replaced by the record its textual
\* parser reads from the response, with that type's three (four) fields,
\* and not by the wrapper; a record of any other content type is replaced
\* by the wrapper of the response; an original that is no record is
\* replaced by the response text itself.
C8_EditFallbacks ==
    [][EditReturns =>
         LET response == last_call'.value
             ct       == target.content_type
         IN  /\ ~IsDict(EditOriginal) => EditStored = Str(response)
             /\ IsDict(EditOriginal) /\ ~json_loads(response).ok =>
                   CASE ct = AdCopy ->
                          /\ EditStored = parse_ad_copy_from_text(response)
                          /\ DOMAIN EditStored.v = {k_headline, k_subtext, k_cta}
                     [] ct = EmailBlocks ->
                          /\ EditStored = parse_email_blocks_from_text(response)
                          /\ DOMAIN EditStored.v =
                                {k_subject_line, k_header, k_product_blurb, k_cta_button}
                     [] OTHER -> EditStored = Wrapper(response)
             /\ EditStored = Wrapper(response) =>
                   IsDict(EditOriginal) /\ ct \notin {AdCopy, EmailBlocks}]_vars

\* An Ad Copy record has been replaced by the record read from a labelled
\* response that is not JSON.
C8_Witness ==
    /\ req.op = "edit" /\ pc = "idle" /\ ui = "edited"
    /\ target.content_type = AdCopy
    /\ ~json_loads(last_call.value).ok
    /\ heap[generated_content][AdCopy][target.index] =
          Dict([k \in {k_headline, k_subtext, k_cta} |->
                  IF k = k_headline THEN Str(<<"H","i">>)
                  ELSE IF k = k_cta THEN Str(<<"G","o">>)
                  ELSE Str(<<>>)])

\* C9 as stated: with no GROQ_API_KEY in the environment (and no key
\* passed, as get_llm passes none) no llm.invoke is attempted and no
\* backoff wait is made.
C9_NoCredentialFailsFast ==
    env_key = NoneVal =>
        /\ invocations = 0
        /\ waits = <<>>
        /\ last_call.outcome = "none"

\* ----------------------------------------------------------------- parsers
\* The generators and edit_content as functions of the model's response:
\* p_in holds the content of the response llm.invoke returned, p_out the
\* value the one function called on it returned to its caller.

\* Lines a response is made of.
MaxLines == 2

ln_Headline == Lbl_Headline \o <<" ","H","i">>

ln_headline == lbl_headline \o <<" ","h","i">>

ln_Subtext == Lbl_Subtext \o <<" ","S","o">>

ln_CTA == Lbl_CTA \o <<" ","G","o">>

ln_Subject == Lbl_Subject \o <<" ","H","i">>

ln_subject == lbl_subject \o <<" ","h","i">>

ln_more == <<"a","n","d"," ","m","o","r","e">>

ResponseLines ==
    {ln_Headline, ln_headline, ln_Subtext, ln_CTA, ln_Subject, ln_subject,
     ln_more, <<>>}

\* "\n".join(lines)
RECURSIVE Join(_)
Join(lines) ==
    IF lines = <<>> THEN <<>>
    ELSE IF Len(lines) = 1 THEN lines[1]
    ELSE lines[1] \o NL \o Join(Tail(lines))

\* Three paragraphs separated by blank lines.
mt_paragraphs == <<"A","\n","\n","B","\n","\n","C">>

\* A response longer than the headline cut, without a line break.
mt_long == [i \in 1..(HeadlineCut + 1) |-> "x"]

mt_blank == <<" ">>

\* Single-line field values: plain, padded with spaces, and one that
\* holds the text of a label.
v_plain == <<"H","i">>

v_padded == <<" ","S","o"," "," ">>

v_label == <<"O","u","r"," ","H","e","a","d","l","i","n","e",":"," ","w","i","n","s">>

FieldValues == {v_plain, v_padded, v_label}

\* The three labelled lines 'Headline: h', 'Subtext: s', 'CTA: c'.
ThreeLines(h, s, c) ==
    Join(<<Lbl_Headline \o <<" ">> \o h, Lbl_Subtext \o <<" ">> \o s,
           Lbl_CTA \o <<" ">> \o c>>)

LabelledResponses == {ThreeLines(h, s, c) : h, s, c \in FieldValues}

\* Lines of a response to the image prompt template: a heading, numbered
\* lines (one with a two-digit number), a dashed line too short to be
\* kept, and a line that starts with the bullet U+2022.
ImageLines ==
    {<<"#"," ","P","r","o","m","p","t","s">>,
     <<"1","."," ","A"," ","s","u","n","n","y"," ","b","e","a","c","h">>,
     <<"1","0","."," ","N","i","g","h","t"," ","i","n"," ","n","e","o","n">>,
     <<"-"," ","T","o","o"," ","s","h","o","r","t">>,
     <<"U+2022">> \o <<" ","F","o","r","e","s","t"," ","a","t"," ","d","a","w","n">>}

ImageResponses == {Join(l) : l \in SeqsUpTo(ImageLines, MaxLines + 2)}

Responses ==
    {Join(l) : l \in SeqsUpTo(ResponseLines, MaxLines)}
        \cup {mt_paragraphs, mt_long, mt_blank, mt_labelled, mt_plain, mt_json}
        \cup LabelledResponses \cup ImageResponses

ParserInit ==
    /\ p_in \in {Str(t) : t \in Responses}
    /\ p_out = NoneVal
    /\ process = "library"
    /\ env_key = Str(<<"g","s","k">>)
    /\ llm = NoneVal
    /\ generated_content = 0
    /\ content_history = <<>>
    /\ heap = <<>>
    /\ ui = "none"
    /\ pc = "idle"
    /\ req = NoRequest
    /\ results = EmptyResults
    /\ ti = 1
    /\ vi = 0
    /\ pi = 1
    /\ captions = EmptyDict
    /\ target = [content_type |-> "", index |-> 0]
    /\ attempt = 0
    /\ waits = <<>>
    /\ last_call = NoCall
    /\ invocations = 0
    /\ returned = NoReturn
    /\ work_done = 0

\* A generator: make_api_call returns the trimmed response, the
\* generator's parser turns it into the variation.
Generator(ct) ==
    LET response == make_api_call_return(p_in.v)
    IN  /\ p_out = NoneVal
        /\ p_out' = [op |-> ct, content_type |-> ct, response |-> response,
                     original |-> NoneVal, value |-> ParseFor(ct, response)]
        /\ UNCHANGED <<p_in, process, env_key, llm, sessionVars, frameVars,
                       callVars, returned, work_done>>

generate_ad_copy_call == Generator(AdCopy)

generate_email_blocks_call == Generator(EmailBlocks)

generate_video_script_call == Generator(VideoScripts)

generate_image_prompts_call == Generator(ImagePrompts)

\* Originals an edit can be asked to change: records the generators
\* return, and a plain string.
Originals ==
    {generate_ad_copy(ln_Headline), generate_email_blocks(ln_Subject),
     generate_video_script(ln_more), Str(ln_more)}

\* edit_content on an original of content type ct.
edit_content_call(original, ct) ==
    LET response == make_api_call_return(p_in.v)
    IN  /\ p_out = NoneVal
        /\ p_out' = [op |-> "edit_content", content_type |-> ct,
                     response |-> response, original |-> original,
                     value |-> edit_content(original, ct, response)]
        /\ UNCHANGED <<p_in, process, env_key, llm, sessionVars, frameVars,
                       callVars, returned, work_done>>

ParserNext ==
    \/ generate_ad_copy_call
    \/ generate_email_blocks_call
    \/ generate_video_script_call
    \/ generate_image_prompts_call
    \/ \E original \in Originals, ct \in {AdCopy, EmailBlocks, VideoScripts} :
          edit_content_call(original, ct)

ParserSpec == ParserInit /\ [][ParserNext]_vars

\* C10 as stated: the Ad Copy record generated from a non-empty response
\* has a non-empty headline.
C10_HeadlineNonEmpty ==
    p_out # NoneVal /\ p_out.op = AdCopy /\ p_out.response # <<>> =>
        p_out.value.v[k_headline].v # <<>>

\* C11: the Ad Copy record generated from a non-empty response is never
\* entirely empty: headline, subtext or cta is a non-empty string.
C11_RecordNotEmpty ==
    p_out # NoneVal /\ p_out.op = AdCopy /\ p_out.response # <<>> =>
        /\ DOMAIN p_out.value.v = {k_headline, k_subtext, k_cta}
        /\ \E k \in {k_headline, k_subtext, k_cta} :
              p_out.value.v[k].t = "str" /\ p_out.value.v[k].v # <<>>

\* A response without any label went through the last fallback, and one
\* of three paragraphs through the paragraph fallback.
C11_Witness ==
    /\ p_out # NoneVal /\ p_out.op = AdCopy
    /\ \/ /\ p_out.response = ln_more
          /\ p_out.value.v[k_headline].v = ln_more \o txt_ellipsis
       \/ /\ p_out.response = mt_paragraphs
          /\ p_out.value.v[k_subtext].v = <<"B">>

\* {headline: h, subtext: s, cta: c}
AdCopyRecord(h, s, c) ==
    Dict([k \in {k_headline, k_subtext, k_cta} |->
            IF k = k_headline THEN Str(h)
            ELSE IF k = k_subtext THEN Str(s) ELSE Str(c)])

\* C12 as stated: from the three lines 'Headline: h', 'Subtext: s',
\* 'CTA: c' the Ad Copy parser returns exactly {headline: h, subtext: s,
\* cta: c}, the values trimmed and otherwise unchanged.
C12_ExactRecord ==
    \A h, s, c \in FieldValues :
        p_out # NoneVal /\ p_out.op = AdCopy /\ p_in.v = ThreeLines(h, s, c) =>
            p_out.value = AdCopyRecord(Strip(h), Strip(s), Strip(c))

\* C13 as stated: a line whose label is written in lower case gives its
\* field the text after the colon, as the line with the canonical label
\* does, in the Ad Copy and Email parsers of generation and of edit.
C13_LabelsAnyCase ==
    p_out # NoneVal =>
        /\ p_out.op = AdCopy /\ p_in.v = ln_headline =>
              p_out.value.v[k_headline] = Str(<<"h","i">>)
        /\ p_out.op = EmailBlocks /\ p_in.v = ln_subject =>
              p_out.value.v[k_subject_line] = Str(<<"h","i">>)
        /\ /\ p_out.op = "edit_content" /\ IsDict(p_out.original)
           /\ p_out.content_type = AdCopy /\ p_in.v = ln_headline =>
              p_out.value.v[k_headline] = Str(<<"h","i">>)

\* A line as the Image Prompts parser cleans it.
ImageCleaned(line) == Strip(LStripChars(Strip(line), BulletChars))

\* The line is non-empty, does not start with '#', and is longer than 10
\* characters after cleaning.
ImageQualifies(line) ==
    /\ Strip(line) # <<>>
    /\ Strip(line)[1] # "#"
    /\ Len(ImageCleaned(line)) > 10

\* The j-th element of the set of numbers Q in increasing order.
NthOf(Q, j) == CHOOSE i \in Q : Cardinality({k \in Q : k < i}) = j - 1

\* C14: the Image Prompts parser returns 1 to 3 strings: the first three
\* (or fewer) qualifying lines of the response, cleaned, in response
\* order; when no line qualifies, the response itself as the only element.
C14_ImagePromptSelection ==
    p_out # NoneVal /\ p_out.op = ImagePrompts =>
        LET lines == Split(p_out.response, NL)
            Q     == {i \in 1..Len(lines) : ImageQualifies(lines[i])}
            out   == p_out.value.v
        IN  /\ p_out.value.t = "list"
            /\ Len(out) \in 1..3
            /\ Q = {} => out = <<Str(p_out.response)>>
            /\ Q # {} =>
                  /\ Len(out) = IF Cardinality(Q) < 3 THEN Cardinality(Q) ELSE 3
                  /\ \A j \in 1..Len(out) :
                        out[j] = Str(ImageCleaned(lines[NthOf(Q, j)]))

\* A response of four qualifying lines gave the first three as prompts.
C14_Witness ==
    /\ p_out # NoneVal /\ p_out.op = ImagePrompts
    /\ LET lines == Split(p_out.response, NL)
       IN  /\ Len(lines) = 4
           /\ \A i \in 1..4 : ImageQualifies(lines[i])
           /\ p_out.value.v = [j \in 1..3 |-> Str(ImageCleaned(lines[j]))]

\* The numbering and bullet characters: any digit, '.', '-', the bullet
\* U+2022 and the space.
NumberingChars ==
    {"0","1","2","3","4","5","6","7","8","9",".","-","U+2022"," "}

\* C15 as stated: every qualifying line the Image Prompts parser returns
\* is the line without its whole leading run of numbering and bullet
\* characters, so it begins with none of them.
C15_LeadingMarkersStripped ==
    p_out # NoneVal /\ p_out.op = ImagePrompts =>
        LET lines == Split(p_out.response, NL)
            Q     == {i \in 1..Len(lines) : ImageQualifies(lines[i])}
            out   == p_out.value.v
        IN  Q # {} =>
              \A j \in 1..Len(out) :
                  /\ out[j].v = Strip(LStripChars(Strip(lines[NthOf(Q, j)]),
                                                  NumberingChars))
                  /\ out[j].v # <<>> => out[j].v[1] \notin NumberingChars

\* C17 as stated: the text make_api_call returns is never empty, so no
\* parser runs on an empty response.
C17_ReturnedTextNonEmpty ==
    p_out # NoneVal => p_out.response # <<>>

\* C18 as stated: the record edit_content reads from a response that is
\* not JSON, for an Ad Copy or Email Creative Blocks record, is the record
\* the generation parser of that content type reads from the same text.
C18_EditParserIsGenerationParser ==
    /\ p_out # NoneVal /\ p_out.op = "edit_content"
    /\ IsDict(p_out.original)
    /\ p_out.content_type \in {AdCopy, EmailBlocks}
    /\ ~json_loads(p_out.response).ok
    => p_out.value = ParseFor(p_out.content_type, p_out.response)

\* The step in which the make_api_call of a platform's caption returns.
SocialCallReturns ==
    /\ pc = "generate"
    /\ req.content_types[ti] = SocialCaptions
    /\ invocations' = invocations + 1
    /\ attempt' = 0
    /\ last_call'.outcome = "returned" /\ last_call'.attempts = attempt + 1

\* The platforms of the running request: as requested, or Instagram alone.
RequestedPlatforms ==
    IF req.platforms = <<>> THEN <<p_Instagram>> ELSE req.platforms

\* C16: each returned call gives the text of one platform's caption, in
\* the order of the requested platforms (Instagram alone when none is
\* given); the call of the last platform completes one variation, a
\* mapping from exactly the requested platforms to the texts returned;
\* and the returned list has num_variations such mappings or markers.
C16_SocialCaptions ==
    [][/\ SocialCallReturns /\ NoRepeat(req.content_types) =>
            LET plats == RequestedPlatforms
                text  == Str(last_call'.value)
            IN  /\ pi \in 1..Len(plats)
                /\ DOMAIN captions = {plats[k] : k \in 1..(pi - 1)}
                /\ IF pi < Len(plats)
                   THEN /\ captions' = Put(captions, plats[pi], text)
                        /\ pi' = pi + 1
                        /\ results' = results /\ vi' = vi /\ pc' = "generate"
                   ELSE /\ Len(results'[SocialCaptions]) = vi + 1
                        /\ results'[SocialCaptions][vi + 1] =
                              Dict(Put(captions, plats[pi], text))
                        /\ DOMAIN results'[SocialCaptions][vi + 1].v =
                              {plats[k] : k \in 1..Len(plats)}
       /\ GenerateReturned' /\ SocialCaptions \in DOMAIN results' =>
            /\ Len(results'[SocialCaptions]) = req'.num_variations
            /\ \A i \in 1..Len(results'[SocialCaptions]) :
                  LET x == results'[SocialCaptions][i]
                  IN  \/ IsErrorMarker(x)
                      \/ /\ IsDict(x)
                         /\ DOMAIN x.v =
                              {RequestedPlatforms'[k] :
                                 k \in 1..Len(RequestedPlatforms')}]_vars

\* Two variations for two platforms were returned, each a mapping with
\* both platforms; four calls were made.
C16_Witness ==
    /\ GenerateReturned
    /\ req.content_types = <<SocialCaptions>>
    /\ req.platforms = <<p_Instagram, p_TikTok>>
    /\ req.num_variations = 2
    /\ invocations = 4
    /\ \A i \in 1..2 :
          /\ IsDict(results[SocialCaptions][i])
          /\ DOMAIN results[SocialCaptions][i].v = {p_Instagram, p_TikTok}

\* C19: when the call of any platform of a social variation fails for
\* good, the variation's slot holds the error marker and nothing else,
\* the captions gathered for the earlier platforms are dropped, the
\* step makes no call for the remaining platforms, and whatever runs
\* next is a later slot that starts from the first platform.
C19_SocialFailureDropsVariation ==
    [][(/\ GenerateCallRaises /\ NoRepeat(req.content_types)
        /\ req.content_types[ti] = SocialCaptions) =>
            LET slot == results'[SocialCaptions][vi + 1]
            IN  /\ pi \in 1..Len(RequestedPlatforms)
                /\ DOMAIN captions = {RequestedPlatforms[k] : k \in 1..(pi - 1)}
                /\ Len(results'[SocialCaptions]) = vi + 1
                /\ slot = Str(txt_error_generating \o IntToStr(vi + 1)
                              \o <<":", " ">> \o last_call'.error)
                /\ captions' = EmptyDict
                /\ pi' = 1
                /\ attempt' = 0
                /\ IF pc' = "generate"
                   THEN ti' > ti \/ (ti' = ti /\ vi' = vi + 1)
                   ELSE GenerateReturned']_vars

\* Of two variations for two platforms, the first got its Instagram
\* caption and then failed on TikTok, and the second has both captions:
\* one call, three failed attempts, then two calls.
C19_Witness ==
    /\ GenerateReturned
    /\ req.content_types = <<SocialCaptions>>
    /\ req.platforms = <<p_Instagram, p_TikTok>>
    /\ req.num_variations = 2
    /\ invocations = 1 + max_retries + 2
    /\ IsErrorMarker(results[SocialCaptions][1])
    /\ IsDict(results[SocialCaptions][2])
    /\ DOMAIN results[SocialCaptions][2].v = {p_Instagram, p_TikTok}

\* The result mapping a history entry shows (and Restore would display).
HistoryContent(k) == heap[content_history[k].content]

\* C20 as stated: whatever is generated, edited or restored afterwards,
\* the content of every history entry stays the mapping that was
\* generated for it; an edit changes the displayed content only.
C20_HistoryKeepsGenerated ==
    [][\A k \in 1..Len(content_history) :
          /\ k <= Len(content_history')
          /\ content_history'[k] = content_history[k]
          /\ heap'[content_history'[k].content] = HistoryContent(k)]_vars

\* The attempts allowed to the content types from position i on: three per
\* variation, and for Social Media Captions three per variation and
\* platform, the platforms being Instagram alone when none is given.
RECURSIVE AttemptBound(_, _)
AttemptBound(rq, i) ==
    IF i > Len(rq.content_types) THEN 0
    ELSE LET plats == IF rq.platforms = <<>> THEN 1 ELSE Len(rq.platforms)
         IN  (IF rq.content_types[i] = SocialCaptions
              THEN 3 * rq.num_variations * plats
              ELSE 3 * rq.num_variations)
             + AttemptBound(rq, i + 1)

\* C21: a generate_content call that is waiting for the model always
\* comes to return, whichever calls fail; what it returns is a mapping
\* with the requested content types, never an exception; and at no
\* point has it made more llm.invoke attempts than three per variation
\* of each content type (times the platforms for Social Media Captions).
C21_TerminatesWithinBound ==
    /\ [](req.op = "generate" => invocations <= AttemptBound(req, 1))
    /\ [](returned.op = "generate_content" => ~returned.raised)
    /\ [](GenerateReturned => DOMAIN results = RequestedTypes)
    /\ (req.op = "generate" /\ pc = "generate") ~> GenerateReturned

\* Two Ad Copy variations were asked for and every call failed: the call
\* returned two error markers after six attempts, the most allowed.
C21_Witness ==
    /\ GenerateReturned
    /\ req.content_types = <<AdCopy>>
    /\ req.num_variations = 2
    /\ invocations = AttemptBound(req, 1)
    /\ invocations = 6
    /\ \A i \in 1..2 : IsErrorMarker(results[AdCopy][i])

====
